---- MODULE Spec2Model ----
(***************************************************************************)
(* Fusion pipeline of engine-go (package fusion): FusionPipeline.Process,  *)
(* FusionPipeline.ProcessIMU, the EKF they drive and the watchdogs.        *)
(*                                                                         *)
(* Number representation.  The code computes in float64; the model uses    *)
(* fixed point integers:                                                   *)
(*   lengths      centimetres        (1 m   = 100)                         *)
(*   timestamps   milliseconds       (as in the code)                      *)
(*   velocities   cm/s               (MaxVel 1.5 m/s = 150)                *)
(*   n, A         hundredths         (n = 3.0 -> 300, A = 8.0 -> 800)      *)
(*   covariance   0.01 m^2 units     (SigmaPos^2 = 25 m^2 -> 2500)         *)
(* and one distinguished value NaN for a non finite float.  NaN follows    *)
(* the IEEE rules the code relies on: it propagates through + - * / and    *)
(* every ordered comparison with it is false.                              *)
(*                                                                         *)
(* The covariance is tracked for the kinematic block (rows/columns 0..3:   *)
(* x, y, vx, vy).  The gain computation of KfUpdate (pinv, adaptive R) is  *)
(* not evaluated numerically: the correction K*rk and the covariance       *)
(* reduction K*S*K^T are chosen from the set KfOutcomes, which covers      *)
(* "no correction" and a correction far outside the clamp windows.         *)
(***************************************************************************)
EXTENDS Integers, Sequences, FiniteSets, TLC

(***************************************************************************)
(* Bounds of the exploration                                               *)
(***************************************************************************)
\* calls with arbitrary inputs
MaxCalls == 3
\* Process calls without measurements, 30 s apart, that may precede them
MaxIdle == 4

(***************************************************************************)
(* Program constants (src/fusion/layer_manager.go, constants block)        *)
(***************************************************************************)
NaN == 2000000000
StateDim == 6
MaxMeaDim == 12
MaxVel == 150
PathLossExp == <<250, 300, 350>>
DeltaA == <<700, 800, 900>>
OutdoorLayer == 1
SigmaPos2 == 2500
SigmaVel2 == 100
\* BetaInit = 1.0 and BetaB = 0.98, in thousandths
BetaInit == 1000
BetaB == 980
\* "dt > 30.0" of Process and ProcessIMU, in ms
GapMs == 30000

(***************************************************************************)
(* float64 helpers                                                         *)
(***************************************************************************)
IsNaN(v) == v = NaN
FAdd(a, b) == IF IsNaN(a) \/ IsNaN(b) THEN NaN ELSE a + b
FSub(a, b) == IF IsNaN(a) \/ IsNaN(b) THEN NaN ELSE a - b
FLt(a, b) == ~IsNaN(a) /\ ~IsNaN(b) /\ a < b
FGt(a, b) == ~IsNaN(a) /\ ~IsNaN(b) /\ a > b
FLe(a, b) == ~IsNaN(a) /\ ~IsNaN(b) /\ a <= b
FGe(a, b) == ~IsNaN(a) /\ ~IsNaN(b) /\ a >= b
Abs(a) == IF a < 0 THEN -a ELSE a
FAbs(a) == IF IsNaN(a) THEN NaN ELSE Abs(a)
Max(a, b) == IF a > b THEN a ELSE b

\* integer square root (floor), by bisection
RECURSIVE IsqrtB(_, _, _)
IsqrtB(n, lo, hi) ==
    IF lo >= hi THEN lo
    ELSE LET mid == (lo + hi + 1) \div 2
         IN IF mid * mid <= n THEN IsqrtB(n, mid, hi) ELSE IsqrtB(n, lo, mid - 1)
Isqrt(n) == IsqrtB(n, 0, 46340)

\* math.Hypot on finite arguments below 460 m, NaN otherwise
Hypot(a, b) ==
    IF IsNaN(a) \/ IsNaN(b) THEN NaN ELSE Isqrt(a * a + b * b)

\* clamp of layer_manager.go: both comparisons are false for NaN, so NaN is returned
clamp(x, min, max) ==
    IF FLt(x, min) THEN min
    ELSE IF FGt(x, max) THEN max
    ELSE x

allFinite(v) == \A i \in DOMAIN v : ~IsNaN(v[i])

(***************************************************************************)
(* Configuration handed to NewFusionPipeline by cmd/fuse (one building,    *)
(* one indoor layer, one outdoor anchor, one anchor with a long id).       *)
(***************************************************************************)
Short(id) == id % 65536

ConfigAnchors ==
    (1 :> [ID |-> 1, X |-> 1000, Y |-> 1000, Layer |-> 2]) @@
    (2 :> [ID |-> 2, X |-> 2000, Y |-> 1000, Layer |-> 2]) @@
    (3 :> [ID |-> 3, X |-> 0, Y |-> 3000, Layer |-> 1]) @@
    (65541 :> [ID |-> 65541, X |-> 1000, Y |-> 2000, Layer |-> 2])

\* the alias loop of NewFusionPipeline
NewAnchors(anc) ==
    [s \in DOMAIN anc \cup {Short(id) : id \in DOMAIN anc} |->
        IF s \in DOMAIN anc THEN anc[s]
        ELSE LET id == CHOOSE i \in DOMAIN anc : Short(i) = s
             IN [anc[id] EXCEPT !.ID = s]]

\* BLERssi.Init with factor 3.0, adjust 8.0, deployment interval 800 cm
AdjustRSSI == 8
MaxRSSI == 28
ranges ==
    <<100, 108, 117, 126, 136, 147, 158, 171, 185, 200, 215, 233, 251, 271,
      293, 316, 341, 369, 398, 430, 464, 501, 541, 584, 631, 681, 736, 794,
      858, 926, 1000, 1080, 1166, 1259, 1359, 1468, 1585>>

\* deployment interval (cm) handed to NewBLERssi
IntrDist == 800

\* floor(100 * 10^(k/30)) for k = 0 .. 37: the largest distance in cm whose
\* 30 log10(d / 100) does not exceed k
rawFloor ==
    <<100, 107, 116, 125, 135, 146, 158, 171, 184, 199, 215, 232, 251, 271,
      292, 316, 341, 368, 398, 429, 464, 501, 541, 584, 630, 681, 735, 794,
      857, 926, 1000, 1079, 1165, 1258, 1359, 1467, 1584, 1711>>

\* variant: the signal level is rounded down
range2rssiFloor(dist) ==
    IF dist <= 100 THEN -AdjustRSSI
    ELSE (CHOOSE k \in 0 .. (Len(rawFloor) - 2) :
             rawFloor[k + 1] <= dist /\ dist < rawFloor[k + 2]) - AdjustRSSI

\* ceil(log10(dist * 0.01) * 10 * factor - adjust) with factor 3.0
range2rssi(dist) ==
    IF dist <= 100 THEN -AdjustRSSI
    ELSE (CHOOSE k \in 0 .. (Len(rawFloor) - 1) :
             /\ dist <= rawFloor[k + 1]
             /\ \A j \in 0 .. (k - 1) : dist > rawFloor[j + 1]) - AdjustRSSI

StrengthFromDbm(dbm) == IF dbm >= 0 THEN dbm ELSE -dbm
ValidRssi(strength) == strength <= MaxRSSI
\* only called with a valid strength in buildSample, so the lookup branch is the one taken
Rssi2Range(strength) ==
    LET idx == strength + AdjustRSSI
    IN IF idx >= 0 /\ idx < Len(ranges) THEN ranges[idx + 1] ELSE 100

(***************************************************************************)
(* EKF (src/fusion/ekf.go)                                                 *)
(***************************************************************************)
Kin == 0 .. 3
St == 0 .. (StateDim - 1)

xconstrain == [i \in St |-> i >= 2]
xMin == [i \in St |-> CASE i = 2 -> -MaxVel [] i = 3 -> -MaxVel
                        [] i = 4 -> PathLossExp[1] [] i = 5 -> DeltaA[1]
                        [] OTHER -> 0]
xMax == [i \in St |-> CASE i = 2 -> MaxVel [] i = 3 -> MaxVel
                        [] i = 4 -> PathLossExp[3] [] i = 5 -> DeltaA[3]
                        [] OTHER -> 0]

ResetXk == [i \in St |-> CASE i = 4 -> PathLossExp[2] [] i = 5 -> DeltaA[2] [] OTHER -> 0]
ResetPxk == [i \in Kin |-> [j \in Kin |->
                IF i # j THEN 0 ELSE IF i <= 1 THEN SigmaPos2 ELSE SigmaVel2]]

\* variant: the reset restores the covariance but keeps the state vector
resetStateKeepX(k) == [k EXCEPT !.Pxk = ResetPxk]

resetState(k) == [k EXCEPT !.xk = ResetXk, !.Pxk = ResetPxk]

\* length of the two histories of the constraint engine
HistoryLen == 5

\* NewDimConstrain: no constraint in use, health not over limit.  A history
\* is a slice of slices: rkExamed and dimConsedFlags hold, per entry, the
\* inner slice it refers to, rkRows and flagRows the contents of the inner
\* slices (statistics <<mean, std, NIS>> and flags <<point, segment>>)
NewDimConstrain ==
    [dimConsUse |-> <<>>, dimRkOverLim |-> FALSE, abnormal |-> FALSE,
     rkExamed |-> [i \in 1 .. HistoryLen |-> i],
     rkRows |-> [i \in 1 .. HistoryLen |-> <<0, 0, 0>>],
     dimConsedFlags |-> [i \in 1 .. HistoryLen |-> i],
     flagRows |-> [i \in 1 .. HistoryLen |-> <<0, 0>>]]

\* copy(h[1:], h[:len(h)-1]) on a slice of slices: every entry but the
\* first takes the inner slice of its predecessor, the first keeps its own
ShiftRefs(h) == <<h[1]>> \o SubSeq(h, 1, Len(h) - 1)

\* the contents of a history, entry by entry
History(refs, rows) == [i \in 1 .. Len(refs) |-> rows[refs[i]]]

\* R holds, for every row of the measurement vector, the diagonal entries
\* of Rk, Rmin and Rmax
NewEKF ==
    [xk |-> ResetXk, Pxk |-> ResetPxk, ts |-> 100,
     usedMea |-> [i \in 0 .. 3 |-> 0], ret |-> 0, Dc |-> NewDimConstrain,
     beta |-> BetaInit, R |-> <<>>]

\* dtime in ms; Updt's argument is math.Max(dt, 0.01)
DtEff(dtms) == Max(dtms, 10)
MulDt(p, d) == (p * d) \div 1000

\* Qk as set by Updt (kinematic block), sigma_acc^2 = 0.0064 m^2/s^3
Qk(d) ==
    LET a == (d * d) \div 10000
        b == (a * (d \div 100)) \div 100
        q00 == (b * 64) \div 3000
        q02 == (a * 32) \div 10000
        q22 == (d * 64) \div 100000
    IN [i \in Kin |-> [j \in Kin |->
          IF i = j THEN (IF i <= 1 THEN q00 ELSE q22)
          ELSE IF Abs(i - j) = 2 THEN q02 ELSE 0]]

Updt(k, d) == [k EXCEPT !.ts = d]

\* matVec(Phikk1, xk): every product a[i][j]*v[j] is formed, so one NaN
\* component makes every component NaN (0 * NaN = NaN)
PredictX(xk, d) ==
    IF ~allFinite(xk) THEN [i \in St |-> NaN]
    ELSE [i \in St |-> IF i <= 1 THEN xk[i] + MulDt(xk[i + 2], d) ELSE xk[i]]

\* Phikk1 * Pxk * Phikk1^T + Qk
PredictP(P, d) ==
    [i \in Kin |-> [j \in Kin |->
        P[i][j]
        + (IF i <= 1 THEN MulDt(P[i + 2][j], d) ELSE 0)
        + (IF j <= 1 THEN MulDt(P[i][j + 2], d) ELSE 0)
        + (IF i <= 1 /\ j <= 1 THEN MulDt(MulDt(P[i + 2][j + 2], d), d) ELSE 0)
        + Qk(d)[i][j]]]

\* the off-diagonal row sum of minEigen's Gershgorin discs
SumAbs(P, i) ==
    LET RECURSIVE acc(_)
        acc(j) == IF j > 3 THEN 0
                  ELSE (IF j = i THEN 0 ELSE Abs(P[i][j])) + acc(j + 1)
    IN acc(0)

symmetrize(a) == [i \in Kin |-> [j \in Kin |-> (a[i][j] + a[j][i]) \div 2]]

\* ManagePxk: the n/A rows are outside the tracked block and SReg = 1e-9
\* is below the resolution, which leaves the symmetrisation
ManagePxk(k) == [k EXCEPT !.Pxk = symmetrize(k.Pxk)]

(***************************************************************************)
(* Dimension constraints (src/fusion/dim_constrain.go)                     *)
(***************************************************************************)
DisLimit == 1000
EndpointLimit == 300

\* distanceCal: <<distance to the point or line, distance to the nearer
\* endpoint when the foot of the perpendicular is outside the segment>>
distanceCal(point, dimPos) ==
    IF IsNaN(point[1]) \/ IsNaN(point[2]) THEN <<NaN, NaN>>
    ELSE IF Len(dimPos) = 1
    THEN <<Hypot(point[1] - dimPos[1][1], point[2] - dimPos[1][2]), 0>>
    ELSE LET p1 == dimPos[1]
             p2 == dimPos[2]
             a == p2[2] - p1[2]
             b == p1[1] - p2[1]
             c == p2[1] * p1[2] - p1[1] * p2[2]
             norm == Max(Hypot(a, b), 10)
             distLine == Abs(a * point[1] + b * point[2] + c) \div norm
             tnum == (point[1] - p1[1]) * (p2[1] - p1[1]) + (point[2] - p1[2]) * (p2[2] - p1[2])
             tden == (p2[1] - p1[1]) * (p2[1] - p1[1]) + (p2[2] - p1[2]) * (p2[2] - p1[2])
             distEP == IF tnum < 0 THEN Hypot(point[1] - p1[1], point[2] - p1[2])
                       ELSE IF tnum > tden THEN Hypot(point[1] - p2[1], point[2] - p2[2])
                       ELSE 0
         IN <<distLine, distEP>>

DimUsable(k, mat) ==
    LET dd == distanceCal(<<k.xk[0], k.xk[1]>>, mat)
    IN Len(mat) > 0 /\ ~(FGt(dd[1], DisLimit) \/ FGt(dd[2], EndpointLimit))

\* dimType of DimConsDeter: whether a point and whether a segment is among
\* the candidates, examined only while the health is not over limit
DimType(k, sample) ==
    [t \in 1 .. 2 |->
       IF ~k.Dc.dimRkOverLim
          /\ \E i \in 1 .. Len(sample.DimPos) : Len(sample.DimPos[i]) = t
       THEN 1 ELSE 0]

DimConsDeter(k, sample) ==
    LET use == [i \in 1 .. Len(sample.DimPos) |->
                  ~k.Dc.dimRkOverLim /\ DimUsable(k, sample.DimPos[i])]
        refs == ShiftRefs(k.Dc.dimConsedFlags)
    IN [k EXCEPT !.Dc.dimConsUse = use,
                 !.usedMea[3] = k.usedMea[3] + Cardinality({i \in DOMAIN use : use[i]}),
                 !.Dc.dimConsedFlags = refs,
                 !.Dc.flagRows[refs[1]] = DimType(k, sample)]

\* sum of one statistic over a history
RECURSIVE FSum(_, _)
FSum(h, c) == IF h = <<>> THEN 0 ELSE FAdd(h[1][c], FSum(Tail(h), c))

\* the verdict of RkConst on a history: at least two of |mean| > 0.3 m,
\* std > 0.4 m, NIS ratio > 1 hold for the averages (mean and std in cm, NIS
\* in hundredths of the chi-square threshold)
Abnormal(h) ==
    LET n == Len(h)
        condBias == FGt(FAbs(FSum(h, 1)), 30 * n)
        condVar == FGt(FSum(h, 2), 40 * n)
        condChi == FGt(FSum(h, 3), 100 * n)
    IN (condBias /\ condVar) \/ (condBias /\ condChi) \/ (condVar /\ condChi)

\* RkConst: with a real measurement row, shift the residual history, write
\* the statistics of this update at its head and judge the averages
RkConst(k, stats) ==
    LET meaSize == k.usedMea[0] + k.usedMea[1] + k.usedMea[2]
        refs == ShiftRefs(k.Dc.rkExamed)
        rows == [k.Dc.rkRows EXCEPT ![refs[1]] = stats]
        abnormal == Abnormal(History(refs, rows))
    IN IF meaSize = 0
       THEN [k EXCEPT !.Dc.dimRkOverLim = FALSE]
       ELSE [k EXCEPT !.Dc.dimRkOverLim = k.usedMea[3] > 0 /\ abnormal,
                      !.Dc.abnormal = abnormal,
                      !.Dc.rkExamed = refs, !.Dc.rkRows = rows]

MeaTotal(k) == k.usedMea[0] + k.usedMea[1] + k.usedMea[3]

\* The noise of a TWR or BLE row, (ToFErr fDis fHdop)^2 or
\* (BleErr fRssi fHdop)^2, and the noise ConsHk gives a constraint row,
\* (DimErr fHdop fDis)^2, are positive; every row is kept in hundredths of
\* its own such value
Rk0 == 100

\* the rows of Rk, Rmin and Rmax as UpMeas leaves them: zeroMat, the noise
\* of the TWR and BLE rows, then Rmax = 100 Rk and Rmin = 0.01 Rk for
\* every row ("dim noises set in ConsHk (later)")
NoiseRows(k, sample) ==
    [i \in 1 .. MeaTotal(k) |->
        IF i <= k.usedMea[0] + k.usedMea[1]
        THEN [kind |-> IF i <= k.usedMea[0] THEN "twr" ELSE "ble", idx |-> i,
              Rk |-> Rk0, Rmin |-> Rk0 \div 100, Rmax |-> 100 * Rk0]
        ELSE [kind |-> "dim", idx |-> i, Rk |-> 0, Rmin |-> 0, Rmax |-> 0]]

UpMeasRows(k, sample) == [k EXCEPT !.R = NoiseRows(k, sample)]

UpMeas(k, sample) ==
    ManagePxk(UpMeasRows(DimConsDeter(
       [k EXCEPT !.usedMea = [i \in 0 .. 3 |->
                  CASE i = 0 -> Len(sample.TWR)
                    [] i = 1 -> Len(sample.BLE)
                    [] OTHER -> 0]], sample), sample))

\* ConsHk: the noise of the enabled constraint rows
ConsHk(R) ==
    [i \in DOMAIN R |-> IF R[i].kind = "dim" THEN [R[i] EXCEPT !.Rk = Rk0] ELSE R[i]]

\* beta = beta / (beta + b)
BetaNext(beta) == (beta * 1000) \div (beta + BetaB)

\* one row of the adaptive loop of KfUpdate.  ry = rk^2 - Py0 is NaN for a
\* non finite innovation, else above Rmax (high) or not above Rmin (it is
\* then raised to Rmin)
AdaptRow(row, beta, high, nan) ==
    IF nan THEN [row EXCEPT !.Rk = NaN]
    ELSE IF high THEN [row EXCEPT !.Rk = row.Rmax]
    ELSE [row EXCEPT !.Rk = ((1000 - beta) * row.Rk + beta * row.Rmin) \div 1000]

\* the measurement vector holds a non finite entry
SampleNaN(sample) == \E i \in 1 .. Len(sample.TWR) : IsNaN(sample.TWR[i].Range)

\* KfUpdate indexes BLE2Dis (MaxMeaDim rows) by the BLE row number
KfUpdateOverflows(k, sample) == MeaTotal(k) > 0 /\ Len(sample.BLE) > MaxMeaDim

\* Numerical outcome of one measurement update: the correction K*rk
\* (x, y, vx, vy, n, A), the covariance reduction K*S*K^T in percent of the
\* predicted covariance, and the innovation statistics.
KfOutcomes ==
    { [inc |-> [i \in St |-> 0], g |-> 0, stats |-> <<0, 0, 0>>, high |-> FALSE],
      [inc |-> [i \in St |-> CASE i <= 1 -> 3000 [] i = 2 -> 400 [] i = 3 -> -400
                               [] i = 4 -> 200 [] OTHER -> -200],
       g |-> 90, stats |-> <<3000, 3000, 900>>, high |-> TRUE] }

\* the adaptive block of KfUpdate on all rows; a row has a non finite
\* innovation when the predicted state is not finite or its range is NaN
Adapt(k, sample, xkk1, out) ==
    LET R == ConsHk(k.R)
    IN [i \in DOMAIN R |->
          AdaptRow(R[i], k.beta, out.high,
                   ~allFinite(xkk1)
                   \/ (R[i].kind = "twr" /\ IsNaN(sample.TWR[i].Range)))]

\* the state clamp loop of KfUpdate
Constrain(x) ==
    [i \in St |-> IF xconstrain[i] THEN clamp(x[i], xMin[i], xMax[i]) ELSE x[i]]

KfUpdate(k, sample, out) ==
    LET d == k.ts
        xkk1 == PredictX(k.xk, d)
        Pxkk1 == PredictP(k.Pxk, d)
    IN IF MeaTotal(k) = 0
       THEN [k EXCEPT !.xk = xkk1, !.Pxk = Pxkk1, !.ret = 1]
       ELSE IF ~allFinite(xkk1) \/ SampleNaN(sample)
            THEN [resetState(RkConst(k, <<NaN, NaN, NaN>>)) EXCEPT
                    !.ret = -2, !.R = Adapt(k, sample, xkk1, out),
                    !.beta = BetaNext(k.beta)]
            ELSE [RkConst(k, out.stats) EXCEPT
                    !.R = Adapt(k, sample, xkk1, out),
                    !.beta = BetaNext(k.beta),
                    !.xk = Constrain([i \in St |-> xkk1[i] + out.inc[i]]),
                    !.Pxk = [i \in Kin |-> [j \in Kin |->
                              (Pxkk1[i][j] * (100 - out.g)) \div 200]],
                    !.ret = 2]

\* quotient truncated toward zero, as float scaling of a signed velocity
Scale(v, num, den) == IF v >= 0 THEN (v * num) \div den ELSE -(((-v) * num) \div den)

PredictConstrain(k) ==
    LET speed == Hypot(k.xk[2], k.xk[3])
        dec == (30 * k.ts) \div 1000
    IN IF FGt(speed, 1)
       THEN [k EXCEPT
               !.xk = [i \in St |->
                         IF i \in {2, 3} THEN Scale(k.xk[i], Max(speed - dec, 0), speed)
                         ELSE k.xk[i]],
               !.Pxk = [i \in Kin |-> [j \in Kin |->
                         IF i # j THEN k.Pxk[i][j]
                         ELSE IF i <= 1
                              THEN (IF k.Pxk[i][i] > SigmaPos2 * 3 THEN SigmaPos2 * 3 ELSE k.Pxk[i][i])
                              ELSE (IF k.Pxk[i][i] > SigmaVel2 * 3 THEN SigmaVel2 * 3 ELSE k.Pxk[i][i])]]]
       ELSE k

(***************************************************************************)
(* Layer manager (src/fusion/layer_manager.go)                             *)
(***************************************************************************)
\* LayerManagerFromConfig for the configuration above: building 1 has the
\* indoor layer 2 (5 m .. 25 m square, one region equal to its rectangle)
layers ==
    (2 :> [ID |-> 2, XTL |-> 500, YTL |-> 500, XBR |-> 2500, YBR |-> 2500,
           ProjectIdx |-> 1,
           Regions |-> <<[XTL |-> 500, YTL |-> 500, XBR |-> 2500, YBR |-> 2500]>>])
projects ==
    <<[XTL |-> 500, YTL |-> 500, XBR |-> 2500, YBR |-> 2500, Regions |-> <<2>>]>>

InRect(pos, r) ==
    FGe(pos[1], r.XTL) /\ FLe(pos[1], r.XBR) /\ FGe(pos[2], r.YTL) /\ FLe(pos[2], r.YBR)

isInProject(pos, proj) == InRect(pos, proj)

isInLayer(pos, layer) ==
    InRect(pos, layer) /\ \E i \in 1 .. Len(layer.Regions) : InRect(pos, layer.Regions[i])

\* anchor ids of a batch that the anchor table knows
KnownIds(meas, anc) == {meas[i].AnchorID : i \in 1 .. Len(meas)} \cap DOMAIN anc

\* minSlice and maxSlice
minSlice(sq) == CHOOSE v \in {sq[i] : i \in 1 .. Len(sq)} : \A i \in 1 .. Len(sq) : v <= sq[i]
maxSlice(sq) == CHOOSE v \in {sq[i] : i \in 1 .. Len(sq)} : \A i \in 1 .. Len(sq) : v >= sq[i]

\* the buildings of the layers, in the order in which the layers are met
RECURSIVE Buildings(_, _)
Buildings(lyrs, order) ==
    IF order = <<>> THEN <<>>
    ELSE LET rest == Buildings(lyrs, SubSeq(order, 1, Len(order) - 1))
             bld == lyrs[order[Len(order)]].Building
         IN IF \E i \in 1 .. Len(rest) : rest[i] = bld THEN rest ELSE Append(rest, bld)

\* buildProjects: one project per building, its rectangle the bounding box
\* of the building's layers, its Regions the layers in the order in which
\* the iteration over the layer map (order) met them
buildProjects(lyrs, order) ==
    LET blds == Buildings(lyrs, order)
    IN [p \in 1 .. Len(blds) |->
          LET lst == SelectSeq(order, LAMBDA l : lyrs[l].Building = blds[p])
          IN [XTL |-> minSlice([i \in 1 .. Len(lst) |-> lyrs[lst[i]].XTL]),
              YTL |-> minSlice([i \in 1 .. Len(lst) |-> lyrs[lst[i]].YTL]),
              XBR |-> maxSlice([i \in 1 .. Len(lst) |-> lyrs[lst[i]].XBR]),
              YBR |-> maxSlice([i \in 1 .. Len(lst) |-> lyrs[lst[i]].YBR]),
              Regions |-> lst]]

\* the layer manager built from the layers lyrs met in the order order
LayerManagerOf(lyrs, order) ==
    LET projs == buildProjects(lyrs, order)
    IN [layers |-> [l \in DOMAIN lyrs |->
                      [ID |-> l, XTL |-> lyrs[l].XTL, YTL |-> lyrs[l].YTL,
                       XBR |-> lyrs[l].XBR, YBR |-> lyrs[l].YBR,
                       ProjectIdx |-> CHOOSE p \in 1 .. Len(projs) :
                                         \E i \in 1 .. Len(projs[p].Regions) :
                                            projs[p].Regions[i] = l,
                       Regions |-> lyrs[l].Regions]],
        projects |-> projs]

\* the rows of layerTrustRate: measured range and geometric distance (cm)
\* for every reading of a known anchor of the layer that is not at the
\* position itself
TrustRows(meas, pos, layerID, anc, isBle) ==
    LET sel == SelectSeq(meas, LAMBDA m :
                   /\ m.AnchorID \in DOMAIN anc
                   /\ anc[m.AnchorID].Layer = layerID
                   /\ Hypot(pos[1] - anc[m.AnchorID].X, pos[2] - anc[m.AnchorID].Y) > 0)
    IN [i \in 1 .. Len(sel) |->
          [rng |-> IF isBle THEN Rssi2Range(StrengthFromDbm(sel[i].RSSIDb))
                   ELSE sel[i].Range,
           dist |-> Hypot(pos[1] - anc[sel[i].AnchorID].X,
                          pos[2] - anc[sel[i].AnchorID].Y)]]

\* sum of range / distance over the rows, in thousandths
RECURSIVE RateSum(_)
RateSum(rows) ==
    IF rows = <<>> THEN 0
    ELSE FAdd(IF IsNaN(rows[1].rng) THEN NaN ELSE (rows[1].rng * 1000) \div rows[1].dist,
              RateSum(Tail(rows)))

\* the rate 0xFF of a layer without a reading, in thousandths
NoRate == 255000

\* layerTrustRate, in thousandths: |1 - mean(range / distance)|
layerTrustRate(bleMeas, twrMeas, pos, layerID, anc) ==
    LET rows == TrustRows(twrMeas, pos, layerID, anc, FALSE)
                \o TrustRows(bleMeas, pos, layerID, anc, TRUE)
        total == RateSum(rows)
    IN IF Len(rows) = 0 THEN NoRate
       ELSE IF IsNaN(total) THEN NaN
       ELSE Abs(1000 - total \div Len(rows))

\* int(rate) of a rate in thousandths
IntOf(rate) == (rate \div 1000) * 1000

\* the loop of GetLayer over the layers that contain the position: a
\* candidate replaces the best one when its rate is below bestRate, and
\* bestRate, an int, takes the integer part of its rate
RECURSIVE BestLayer(_, _, _, _, _, _, _)
BestLayer(cands, bestLayer, bestRate, bleMeas, twrMeas, pos, anc) ==
    IF cands = <<>> THEN bestLayer
    ELSE LET rate == layerTrustRate(bleMeas, twrMeas, pos, cands[1], anc)
         IN IF FLt(rate, bestRate)
            THEN BestLayer(Tail(cands), <<cands[1]>>, IntOf(rate), bleMeas, twrMeas, pos, anc)
            ELSE BestLayer(Tail(cands), bestLayer, bestRate, bleMeas, twrMeas, pos, anc)

\* variant: without a matching project the answer is always the outdoor layer
NoProjectOutdoors(outdoor) == <<OutdoorLayer>>

\* the answer of GetLayer when no project matches
NoProject(outdoor) == IF outdoor THEN <<OutdoorLayer>> ELSE <<>>

\* GetLayer on the layer manager lm; <<>> is the nil result
GetLayerOf(lm, bleMeas, twrMeas, pos, anc) ==
    LET ids == KnownIds(bleMeas, anc) \cup KnownIds(twrMeas, anc)
        layerList == {anc[a].Layer : a \in ids}
        outdoor == OutdoorLayer \in layerList
        proList == {lm.layers[lid].ProjectIdx : lid \in
                      {l \in layerList \cap DOMAIN lm.layers :
                          /\ l # OutdoorLayer
                          /\ lm.layers[l].ProjectIdx \in 1 .. Len(lm.projects)
                          /\ isInProject(pos, lm.projects[lm.layers[l].ProjectIdx])}}
    IN IF layerList = {} THEN <<>>
       ELSE IF proList = {} THEN NoProject(outdoor)
       ELSE IF Cardinality(proList) > 1 THEN <<>>
       ELSE LET proj == lm.projects[CHOOSE q \in proList : TRUE]
                layersInProj == SelectSeq(proj.Regions,
                                          LAMBDA l : isInLayer(pos, lm.layers[l]))
            IN IF Len(layersInProj) = 0 THEN <<OutdoorLayer>>
               ELSE IF Len(layersInProj) = 1 THEN <<layersInProj[1]>>
               ELSE BestLayer(layersInProj, <<>>, NoRate, bleMeas, twrMeas, pos, anc)

\* GetLayer on the layer manager of the pipeline
GetLayer(bleMeas, twrMeas, pos, anc) ==
    GetLayerOf([layers |-> layers, projects |-> projects], bleMeas, twrMeas, pos, anc)

(***************************************************************************)
(* Loose fusor (package fusion/loose): identity of the instance and its    *)
(* latest raw estimate                                                     *)
(***************************************************************************)
NewFusor(id) == [id |-> id, has |-> FALSE, RawX |-> NaN, RawY |-> NaN]
IngestUwb(f, x, y) == [f EXCEPT !.has = TRUE, !.RawX = x, !.RawY = y]
IngestImu(f) == f
Latest(f) == f.has

(***************************************************************************)
(* Fusion pipeline (FusionPipeline, pipeline source)                       *)
(***************************************************************************)
VARIABLES
    anchors,        \* p.anchors
    lastTS,         \* p.lastTS: <<>> is nil, <<t>> points to t
    lastImuDist,    \* p.lastImuDist: <<>> is nil
    initialized,    \* p.initialized
    divergeCount,   \* p.divergeCount
    ekf,            \* p.ekf
    looseFusor,     \* p.looseFusor
    crashed,        \* a call ended in a run-time panic
    result,         \* FusionResult of the last Process call, <<>> if none
    lastCall,       \* what the last call did (observation only)
    nCalls,         \* number of calls made (bounds the exploration)
    nIdle,          \* number of idle periods before them
    server,         \* the UdpServer in front of the pipeline, <<>> if none
    sender          \* the rbc.Sender and its goroutines, <<>> if none

vars == <<anchors, lastTS, lastImuDist, initialized, divergeCount, ekf,
          looseFusor, crashed, result, lastCall, nCalls, nIdle, server, sender>>

\* wogi.xml dimension data: beacon 2 carries two corridor segments, layer 2
\* a layer-wide corridor
beaconLayer == <<>>
beaconDims == (2 :> << <<<<500, 1000>>, <<2500, 1000>>>>,
                       <<<<2000, 500>>, <<2000, 2500>>>> >>)
dimMap == (2 :> << <<<<1000, 500>>, <<1000, 2500>>>> >>)
dimCap == 5

RECURSIVE SumOf(_, _)
SumOf(rows, f) == IF rows = <<>> THEN 0 ELSE rows[1][f] + SumOf(Tail(rows), f)

MapSeq(sq, Op(_)) == [i \in 1 .. Len(sq) |-> Op(sq[i])]

\* variant: a list of constraints is appended whole
TakeAll(sq, n) == sq

\* the first n entries: the loops that append while len(dimPos) < dimCap
Take(sq, n) == SubSeq(sq, 1, IF n < Len(sq) THEN n ELSE Len(sq))
MinOf(sq) == CHOOSE v \in {sq[i] : i \in 1 .. Len(sq)} :
                \A w \in {sq[i] : i \in 1 .. Len(sq)} : v <= w

Known(meas) == SelectSeq(meas, LAMBDA m : m.AnchorID \in DOMAIN anchors)

chooseLayer(bleMeas, twrMeas, currentPos) ==
    LET rows == MapSeq(Known(twrMeas) \o Known(bleMeas), LAMBDA m : anchors[m.AnchorID])
        pos3 == IF initialized THEN currentPos
                ELSE IF Len(rows) > 0
                     THEN <<SumOf(rows, "X") \div Len(rows), SumOf(rows, "Y") \div Len(rows)>>
                     ELSE <<0, 0>>
    IN GetLayer(bleMeas, twrMeas, pos3, anchors)

\* stable insertion sort by strength (sort.Slice on distinct strengths)
RECURSIVE InsertByStrength(_, _)
InsertByStrength(sorted, e) ==
    IF sorted = <<>> THEN <<e>>
    ELSE IF e.strength < sorted[1].strength THEN <<e>> \o sorted
    ELSE <<sorted[1]>> \o InsertByStrength(Tail(sorted), e)
RECURSIVE SortByStrength(_)
SortByStrength(sq) ==
    IF sq = <<>> THEN <<>>
    ELSE InsertByStrength(SortByStrength(SubSeq(sq, 1, Len(sq) - 1)), sq[Len(sq)])

RECURSIVE DimFromBle(_, _, _)
DimFromBle(bleList, acc, layerSel) ==
    IF bleList = <<>> \/ Len(acc) >= dimCap THEN acc
    ELSE LET aid == bleList[1].aid
             lay0 == IF aid \in DOMAIN beaconLayer THEN beaconLayer[aid] ELSE 0
             lay == IF lay0 = 0 THEN anchors[aid].Layer ELSE lay0
             skip == layerSel # <<>> /\ lay # 0 /\ lay # layerSel[1]
             mats == IF aid \in DOMAIN beaconDims THEN beaconDims[aid] ELSE <<>>
             add == IF Len(mats) > 0 THEN Take(mats, dimCap - Len(acc))
                    ELSE << <<<<anchors[aid].X, anchors[aid].Y>>>> >>
         IN DimFromBle(Tail(bleList), IF skip THEN acc ELSE acc \o add, layerSel)

TwrAccepted(m, bleEstRanges, currentPos, init) ==
    LET a == anchors[m.AnchorID]
        dist == Hypot(FSub(a.X, currentPos[1]), FSub(a.Y, currentPos[2]))
    IN /\ ~(FLt(m.Range, 1) \/ FGt(m.Range, 40000))
       /\ ~(init /\ FGt(FAbs(FSub(m.Range, dist)), 5000))
       /\ ~(Len(bleEstRanges) > 0 /\ FGt(m.Range, Max(3000, 2 * MinOf(bleEstRanges))))

buildSample(bleMeas, twrMeas, layerSel, currentPos, init) ==
    LET kb == Known(bleMeas)
        bleRows == MapSeq(kb, LAMBDA m :
                      [X |-> anchors[m.AnchorID].X, Y |-> anchors[m.AnchorID].Y,
                       Strength |-> StrengthFromDbm(m.RSSIDb), AnchorID |-> m.AnchorID,
                       Layer |-> anchors[m.AnchorID].Layer])
        bleEstRanges == MapSeq(SelectSeq(bleRows, LAMBDA r : ValidRssi(r.Strength)),
                               LAMBDA r : Rssi2Range(r.Strength))
        twrRows == MapSeq(SelectSeq(Known(twrMeas),
                                    LAMBDA m : TwrAccepted(m, bleEstRanges, currentPos, init)),
                      LAMBDA m :
                      [X |-> anchors[m.AnchorID].X, Y |-> anchors[m.AnchorID].Y,
                       Range |-> m.Range, AnchorID |-> m.AnchorID,
                       Layer |-> anchors[m.AnchorID].Layer])
        bleList == SortByStrength(MapSeq(kb, LAMBDA m :
                      [aid |-> m.AnchorID, strength |-> StrengthFromDbm(m.RSSIDb)]))
        dimBle == DimFromBle(bleList, <<>>, layerSel)
        dimPos == IF layerSel # <<>> /\ layerSel[1] # OutdoorLayer /\ layerSel[1] \in DOMAIN dimMap
                  THEN dimBle \o Take(dimMap[layerSel[1]], dimCap - Len(dimBle))
                  ELSE dimBle
    IN [BLE |-> bleRows, TWR |-> twrRows, DimPos |-> dimPos]

\* "p.anchors[a.ID] = a" of AddAnchor
AddAnchorTo(anc, a) == (a.ID :> a) @@ anc

\* variant: the late timestamp is taken as it comes
BumpNone(tsIn, last) == tsIn

\* "if tsMs <= *p.lastTS { tsMs = *p.lastTS + 1 }" of Process and ProcessIMU
Bump(tsIn, last) == IF tsIn <= last THEN last + 1 ELSE tsIn

\* variant: only ranging rows bootstrap the filter
BootstrapsTwrOnly(init, sample) == ~init /\ Len(sample.TWR) > 0

\* the bootstrap condition of Process
Bootstraps(init, sample) == ~init /\ (Len(sample.TWR) > 0 \/ Len(sample.BLE) > 0)

ResetResult(ts, layerSel) ==
    [TimestampMs |-> ts, X |-> 0, Y |-> 0, Flag |-> -2, UsedMea |-> <<0, 0>>,
     NumBeacons |-> 0, Algo |-> "NA", Layer |-> layerSel]

\* currentPos of Process: the EKF position once initialized, else the origin
CurrentPos == IF initialized THEN <<ekf.xk[0], ekf.xk[1]>> ELSE <<0, 0>>

\* position variance (in 0.01 m^2) above which the watchdogs reset
CovLimit == 1000000

\* variant: no covariance watchdog
CovExplodedNever(k) == FALSE

\* the test of the covariance watchdogs of Process and ProcessIMU
CovExploded(k) == k.Pxk[0][0] > CovLimit \/ k.Pxk[1][1] > CovLimit

\* variant: the bootstrap takes the rows of both kinds together
BootRowsAll(sample) == sample.BLE \o sample.TWR

\* the rows whose anchors the bootstrap averages: the BLE rows when there
\* is one, the TWR rows otherwise
BootRows(sample) == IF Len(sample.BLE) > 0 THEN sample.BLE ELSE sample.TWR

\* Process up to the computation of dt: creation of lastTS, bootstrap from
\* the centroid of the rows in view, bump of a late timestamp
ProcessEnter(tsIn, sample) ==
    LET ts0 == IF lastTS = <<>> THEN tsIn ELSE lastTS[1]
        boot == Bootstraps(initialized, sample)
        src == BootRows(sample)
    IN [ts0 |-> ts0, tsMs |-> Bump(tsIn, ts0), boot |-> boot,
        initialized |-> initialized \/ boot,
        divergeCount |-> IF boot THEN 0 ELSE divergeCount,
        ekf |-> IF boot
                THEN [ekf EXCEPT !.xk[0] = SumOf(src, "X") \div Len(src) + 100,
                                 !.xk[1] = SumOf(src, "Y") \div Len(src) + 100]
                ELSE ekf,
        rows |-> Len(sample.BLE) + Len(sample.TWR),
        sample |-> sample, init0 |-> initialized, pos0 |-> CurrentPos]

\* the EKF position that a bootstrap has set, <<>> without a bootstrap
BootPos(pre) == IF pre.boot THEN <<pre.ekf.xk[0], pre.ekf.xk[1]>> ELSE <<>>

\* the pipeline fields and the observations of a Process call that has
\* got as far as the computation of dt
ProcessBase(pre) ==
    [lastTS |-> <<pre.ts0>>, initialized |-> pre.initialized,
     divergeCount |-> pre.divergeCount, ekf |-> pre.ekf, looseFusor |-> looseFusor,
     crashed |-> FALSE, result |-> <<>>, boot |-> pre.boot, gap |-> FALSE,
     rows |-> pre.rows, ret |-> 0, wd |-> "none",
     sample |-> pre.sample, init0 |-> pre.init0, pos0 |-> pre.pos0,
     fus |-> looseFusor, bootPos |-> BootPos(pre)]

\* a reset branch of Process: resetState, initialized = false,
\* divergeCount = 0 and the reset result; fus is the loose fusor it leaves
ProcessReset(pre, k, flag0, why, fus, layerSel) ==
    [ProcessBase(pre) EXCEPT !.ekf = resetState(k), !.initialized = FALSE,
                             !.lastTS = <<pre.tsMs>>, !.divergeCount = 0,
                             !.ret = flag0, !.wd = why, !.looseFusor = fus,
                             !.result = <<ResetResult(pre.tsMs, layerSel)>>]

\* the loose fusor has a raw estimate whose x is not NaN
LooseUsable(fus) == Latest(fus) /\ ~IsNaN(fus.RawX)

\* the divergence check of Process: the raw loose estimate lies more than
\* 20 m from the EKF position
Diverged(fus, ex, ey) ==
    LooseUsable(fus) /\ FGt(Hypot(FSub(fus.RawX, ex), FSub(fus.RawY, ey)), 2000)

\* variant: every negative outcome of the EKF counts as a divergence
DivergeCountAfterNegative(dc, flag) == IF flag < 0 THEN dc + 1 ELSE 0

\* divergeCount after the divergence check of Process on the EKF outcome
DivergeCountAfter(dc, flag) ==
    IF flag = -3 THEN dc + 1 ELSE IF flag >= 0 THEN 0 ELSE dc

\* Process from the layer re-check to the return: flag, algo label, choice
\* between the EKF and the loose estimate, output watchdog
ProcessOutput(pre, ekfP, fusU, chk, layerSel, sample) ==
    LET flag0 == ekfP.ret
        dcW == DivergeCountAfter(pre.divergeCount, flag0)
        ex == ekfP.xk[0]
        ey == ekfP.xk[1]
        flag == IF chk = <<>> THEN -1 ELSE flag0
        layerOut == IF chk = <<>> THEN layerSel ELSE chk
        algo == IF \E i \in 1 .. Len(sample.DimPos) : Len(sample.DimPos[i]) = 2
                THEN "1D" ELSE "0D"
        useLoose == LooseUsable(fusU)
        diverged == Diverged(fusU, ex, ey)
        outX == IF useLoose /\ ~diverged THEN fusU.RawX ELSE ex
        outY == IF useLoose /\ ~diverged THEN fusU.RawY ELSE ey
        fusD == IF diverged THEN IngestUwb(NewFusor(fusU.id + 1), ex, ey) ELSE fusU
    IN IF IsNaN(outX) \/ IsNaN(outY)
       THEN [ProcessReset(pre, ekfP, flag0, "nan", NewFusor(fusD.id + 1), layerOut)
               EXCEPT !.fus = fusU]
       ELSE [ProcessBase(pre) EXCEPT
               !.lastTS = <<pre.tsMs>>, !.ret = flag0, !.fus = fusU,
               !.ekf = ekfP, !.divergeCount = dcW, !.looseFusor = fusD,
               !.result = <<[TimestampMs |-> pre.tsMs, X |-> outX, Y |-> outY,
                             Flag |-> flag,
                             UsedMea |-> <<ekfP.usedMea[0], ekfP.usedMea[1]>>,
                             NumBeacons |-> pre.rows,
                             Algo |-> algo, Layer |-> layerOut]>>]

\* cos and sin of the yaw angles the model feeds (multiples of 90 degrees)
Cos(yawDeg) == CASE yawDeg = 0 -> 1 [] yawDeg = 180 -> -1 [] OTHER -> 0
Sin(yawDeg) == CASE yawDeg = 90 -> 1 [] yawDeg = 270 -> -1 [] OTHER -> 0
FMul(a, b) == IF IsNaN(a) \/ IsNaN(b) THEN NaN ELSE a * b
\* v = d / dt for d in cm and dt in ms, in cm/s
Vel(d, dtms) == IF IsNaN(d) THEN NaN ELSE Scale(d, 1000, dtms)

\* variant: an applied IMU sample marks the pipeline initialized
ImuInitializedSet(init) == TRUE

\* what ProcessIMU leaves in p.initialized when it has applied a sample
\* ("Do NOT set p.initialized = true here")
ImuInitialized(init) == init

\* the pipeline fields and the observations of a ProcessIMU call
ImuBase ==
    [lastTS |-> lastTS, lastImuDist |-> lastImuDist,
     initialized |-> initialized, divergeCount |-> divergeCount,
     ekf |-> ekf, looseFusor |-> looseFusor,
     first |-> FALSE, gap |-> FALSE, rejected |-> FALSE, applied |-> FALSE,
     wd |-> FALSE, px |-> 0, py |-> 0, dx |-> 0, dy |-> 0]

\* ProcessIMU on a pipeline that has seen no call: it stores the timestamp
\* and the distance baseline
ImuFirst(tsIn, distance) ==
    [ImuBase EXCEPT !.lastTS = <<tsIn>>, !.lastImuDist = <<distance>>, !.first = TRUE]

\* ProcessIMU up to the computation of dt: step against the baseline, new
\* baseline, bump of a late timestamp
ImuEnter(tsIn, distance) ==
    LET dist0 == IF lastImuDist = <<>> THEN distance ELSE lastImuDist[1]
        tsMs == Bump(tsIn, lastTS[1])
    IN [deltaDist |-> FSub(distance, dist0), tsMs |-> tsMs, dtms |-> tsMs - lastTS[1],
        base |-> [ImuBase EXCEPT !.lastImuDist = <<distance>>]]

\* the dt > 30 s branch of ProcessIMU
ImuGap(pre) ==
    [pre.base EXCEPT !.ekf = resetState(ekf), !.initialized = FALSE,
                     !.lastTS = <<pre.tsMs>>, !.divergeCount = 0, !.gap = TRUE]

\* the sanity gate of ProcessIMU: more than 5 m, or faster than 20 m/s
ImuRejects(pre) ==
    FGt(FAbs(pre.deltaDist), 500) \/ FGt(FAbs(pre.deltaDist), 2 * pre.dtms)

\* predict step, displacement along the yaw and position clamp
ImuPredict(pre, yawDeg) ==
    LET d == DtEff(pre.dtms)
        xp == PredictX(ekf.xk, d)
        dx == FMul(pre.deltaDist, Cos(yawDeg))
        dy == FMul(pre.deltaDist, Sin(yawDeg))
    IN [ekf |-> [ekf EXCEPT !.ts = d,
                            !.xk = [xp EXCEPT
                                      ![0] = clamp(FAdd(xp[0], dx), xMin[0], xMax[0]),
                                      ![1] = clamp(FAdd(xp[1], dy), xMin[1], xMax[1])],
                            !.Pxk = PredictP(ekf.Pxk, d)],
        px |-> xp[0], py |-> xp[1], dx |-> dx, dy |-> dy]

\* the covariance watchdog branch of ProcessIMU
ImuWatchdog(pre, mv) ==
    [pre.base EXCEPT !.ekf = resetState(mv.ekf), !.initialized = FALSE,
                     !.divergeCount = 0, !.looseFusor = IngestImu(looseFusor),
                     !.applied = TRUE, !.wd = TRUE]

\* velocity from the step, speed clamp and the lastTS update
ImuVelocity(pre, mv) ==
    LET vx0 == Vel(mv.dx, pre.dtms)
        vy0 == Vel(mv.dy, pre.dtms)
        speed == Hypot(vx0, vy0)
        fast == FGt(speed, MaxVel)
    IN [pre.base EXCEPT
          !.ekf = [mv.ekf EXCEPT
                     !.xk[2] = IF fast THEN Scale(vx0, MaxVel, speed) ELSE vx0,
                     !.xk[3] = IF fast THEN Scale(vy0, MaxVel, speed) ELSE vy0],
          !.initialized = ImuInitialized(initialized),
          !.lastTS = <<pre.tsMs>>, !.looseFusor = IngestImu(looseFusor),
          !.applied = TRUE,
          !.px = mv.px, !.py = mv.py, !.dx = mv.dx, !.dy = mv.dy]

(***************************************************************************)
(* Inputs                                                                  *)
(***************************************************************************)
\* timestamp of a call relative to lastTS (ms): late, in step (IMU), at
\* and beyond the 30 s gap
TsDeltas == {-50, GapMs, GapMs + 1}
ImuTsDeltas == TsDeltas \cup {100}

Ble(aid, dbm) == [AnchorID |-> aid, RSSIDb |-> dbm]
Twr(aid, rng) == [AnchorID |-> aid, Range |-> rng]

\* measurement events: <<BLE batch, TWR batch>>
MeasEvents ==
    { << <<>>, <<>> >>,
      << <<Ble(1, -20)>>, <<>> >>,
      << [i \in 1 .. (MaxMeaDim + 1) |-> Ble(2, -20)], <<>> >>,
      << [i \in 1 .. 3 |-> Ble(2, -20)], <<>> >>,
      << <<Ble(9, -20)>>, <<Twr(1, 500), Twr(3, 600)>> >>,
      << <<>>, <<Twr(1, NaN)>> >>,
      << <<>>, <<Twr(2, 50000), Twr(3, 50000)>> >>,
      << <<Ble(2, -20)>>, <<Twr(1, 500)>> >> }

\* anchors handed to AddAnchor: one with a long id (short id 9)
AnchorInputs == { [ID |-> 65545, X |-> 1500, Y |-> 1500, Layer |-> 2] }

\* cumulative IMU distance relative to the stored baseline (cm), or NaN
ImuSteps == {100, 600}
ImuYaws == {90}

\* the first call arrives at 1000 ms, a later one at lastTS + delta
TsInputs(deltas) == IF lastTS = <<>> THEN {1000} ELSE {lastTS[1] + dts : dts \in deltas}
BaseDist == IF lastImuDist = <<>> \/ lastImuDist = <<NaN>> THEN 0 ELSE lastImuDist[1]

(***************************************************************************)
(* State machine                                                           *)
(***************************************************************************)
Init ==
    /\ anchors = NewAnchors(ConfigAnchors)
    /\ lastTS = <<>>
    /\ lastImuDist = <<>>
    /\ initialized = FALSE
    /\ divergeCount = 0
    /\ ekf = NewEKF
    /\ looseFusor = NewFusor(0)
    /\ crashed = FALSE
    /\ result = <<>>
    /\ lastCall = [op |-> "none"]
    /\ nCalls = 0
    /\ nIdle = 0
    /\ server = <<>>
    /\ sender = <<>>

\* the state a Process call leaves
ProcessReturns(r) ==
    /\ lastTS' = r.lastTS
    /\ initialized' = r.initialized
    /\ divergeCount' = r.divergeCount
    /\ ekf' = r.ekf
    /\ looseFusor' = r.looseFusor
    /\ crashed' = r.crashed
    /\ result' = r.result
    /\ lastCall' = [op |-> "Process", gap |-> r.gap, boot |-> r.boot,
                    rows |-> r.rows, ret |-> r.ret, wd |-> r.wd,
                    prevGap |-> lastCall.op = "Process" /\ lastCall.gap,
                    sample |-> r.sample, init0 |-> r.init0, pos0 |-> r.pos0,
                    fus |-> r.fus, bootPos |-> r.bootPos]

\* one call Process(tsIn, tagID, ev[1], ev[2], 0.0); out is the numerical
\* outcome of the measurement update, should the call make one
ProcessRuns(tsIn, ev, out) ==
       \E layerSel \in {chooseLayer(ev[1], ev[2], CurrentPos)} :
       \E sample \in {buildSample(ev[1], ev[2], layerSel, CurrentPos, initialized)} :
       \E pre \in {ProcessEnter(tsIn, sample)} :
         IF pre.tsMs - pre.ts0 > GapMs
         THEN \E r \in {[ProcessReset(pre, pre.ekf, 0, "none", looseFusor, layerSel)
                           EXCEPT !.gap = TRUE]} : ProcessReturns(r)
         ELSE
         \E ekfM \in {UpMeas(Updt(pre.ekf, DtEff(pre.tsMs - pre.ts0)), sample)} :
         IF KfUpdateOverflows(ekfM, sample)
         THEN \E r \in {[ProcessBase(pre) EXCEPT !.ekf = ekfM, !.crashed = TRUE]} :
                 ProcessReturns(r)
         ELSE
         \E ekfU \in {KfUpdate(ekfM, sample, out)} :
         IF CovExploded(ekfU)
         THEN \E r \in {ProcessReset(pre, ekfU, ekfU.ret, "cov", looseFusor, layerSel)} :
                 ProcessReturns(r)
         ELSE IF ekfU.ret = -3 /\ pre.divergeCount + 1 > 5
         THEN \E r \in {ProcessReset(pre, ekfU, ekfU.ret, "diverge", looseFusor, layerSel)} :
                 ProcessReturns(r)
         ELSE
         \E ekfP \in {IF ekfU.ret = 1 THEN PredictConstrain(ekfU) ELSE ekfU} :
         \E fusU \in {IF ekfP.ret = 2
                      THEN IngestUwb(looseFusor, ekfP.xk[0], ekfP.xk[1])
                      ELSE looseFusor} :
         \E chk \in {GetLayer(ev[1], ev[2], <<ekfP.xk[0], ekfP.xk[1]>>, anchors)} :
         \E r \in {ProcessOutput(pre, ekfP, fusU, chk, layerSel, sample)} :
            ProcessReturns(r)

\* the arbitrary calls start on a fresh pipeline or on one that has idled
\* for MaxIdle periods; the idle periods together are counted as one call
CallsOpen ==
    /\ ~crashed
    /\ nIdle \in {0, MaxIdle}
    /\ nCalls + (IF nIdle > 0 THEN 1 ELSE 0) < MaxCalls

Process ==
    /\ CallsOpen
    /\ \E tsIn \in TsInputs(TsDeltas), ev \in MeasEvents, out \in KfOutcomes :
          ProcessRuns(tsIn, ev, out)
    /\ nCalls' = nCalls + 1
    /\ UNCHANGED <<anchors, lastImuDist, nIdle, server, sender>>

\* an idle period: a Process call that carries no measurement, 30 s after
\* the previous one
Idle ==
    /\ nCalls = 0
    /\ nIdle < MaxIdle
    /\ \E tsIn \in TsInputs({GapMs}), out \in {CHOOSE o \in KfOutcomes : TRUE} :
          ProcessRuns(tsIn, << <<>>, <<>> >>, out)
    /\ nIdle' = nIdle + 1
    /\ UNCHANGED <<anchors, lastImuDist, nCalls, server, sender>>

\* the state a ProcessIMU call leaves
ImuReturns(r) ==
    /\ lastTS' = r.lastTS
    /\ lastImuDist' = r.lastImuDist
    /\ initialized' = r.initialized
    /\ divergeCount' = r.divergeCount
    /\ ekf' = r.ekf
    /\ looseFusor' = r.looseFusor
    /\ lastCall' = [op |-> "ProcessIMU", gap |-> r.gap, first |-> r.first,
                    rejected |-> r.rejected, applied |-> r.applied, wd |-> r.wd,
                    px |-> r.px, py |-> r.py, dx |-> r.dx, dy |-> r.dy]

ProcessIMU ==
    /\ CallsOpen
    /\ \E tsIn \in TsInputs(ImuTsDeltas), distance \in {BaseDist + s : s \in ImuSteps} \cup {NaN},
          yawDeg \in ImuYaws :
         IF lastTS = <<>>
         THEN \E r \in {ImuFirst(tsIn, distance)} : ImuReturns(r)
         ELSE
         \E pre \in {ImuEnter(tsIn, distance)} :
         IF pre.dtms > GapMs
         THEN \E r \in {ImuGap(pre)} : ImuReturns(r)
         ELSE IF ImuRejects(pre)
         THEN \E r \in {[pre.base EXCEPT !.rejected = TRUE]} : ImuReturns(r)
         ELSE
         \E mv \in {ImuPredict(pre, yawDeg)} :
         IF CovExploded(mv.ekf)
         THEN \E r \in {ImuWatchdog(pre, mv)} : ImuReturns(r)
         ELSE \E r \in {ImuVelocity(pre, mv)} : ImuReturns(r)
    /\ nCalls' = nCalls + 1
    /\ UNCHANGED <<anchors, crashed, result, nIdle, server, sender>>

AddAnchor ==
    /\ CallsOpen
    /\ \E a \in AnchorInputs :
          /\ anchors' = AddAnchorTo(anchors, a)
          /\ lastCall' = [op |-> "AddAnchor", id |-> a.ID]
    /\ nCalls' = nCalls + 1
    /\ UNCHANGED <<lastTS, lastImuDist, initialized, divergeCount, ekf,
                   looseFusor, crashed, result, nIdle, server, sender>>

Next == Process \/ ProcessIMU \/ Idle \/ AddAnchor

Spec == Init /\ [][Next]_vars

(***************************************************************************)
(* RSSI model on its own: the distances of the round trip contract         *)
(***************************************************************************)
RoundTripDists == 100 .. (700 + IntrDist)

\* a constructed pipeline and a distance to be converted
InitRssi ==
    /\ anchors = NewAnchors(ConfigAnchors)
    /\ lastTS = <<>>
    /\ lastImuDist = <<>>
    /\ initialized = FALSE
    /\ divergeCount = 0
    /\ ekf = NewEKF
    /\ looseFusor = NewFusor(0)
    /\ crashed = FALSE
    /\ result = <<>>
    /\ lastCall \in {[op |-> "Distance", d |-> d] : d \in RoundTripDists}
    /\ nCalls = 0
    /\ nIdle = 0
    /\ server = <<>>
    /\ sender = <<>>

\* range2rssi followed by Rssi2Range
RoundTrip ==
    /\ lastCall.op = "Distance"
    /\ lastCall' = [op |-> "RoundTrip", d |-> lastCall.d,
                    rssi |-> range2rssi(lastCall.d),
                    back |-> Rssi2Range(range2rssi(lastCall.d))]
    /\ UNCHANGED <<anchors, lastTS, lastImuDist, initialized, divergeCount, ekf,
                   looseFusor, crashed, result, nCalls, nIdle, server, sender>>

NextRssi == RoundTrip

SpecRssi == InitRssi /\ [][NextRssi]_vars

(***************************************************************************)
(* Layer manager on its own: two buildings, one of them with two layers    *)
(***************************************************************************)
\* layers 2 and 4 of building 1 overlap between x = 15 m and x = 25 m for
\* y up to 15 m; layer 5 of building 2 overlaps the bounding box of
\* building 1 between x = 30 m and x = 35 m.  Every layer has the one
\* region that ensureRegions gives it.
Rect(xtl, ytl, xbr, ybr) == [XTL |-> xtl, YTL |-> ytl, XBR |-> xbr, YBR |-> ybr]
LayerOf(bld, r) ==
    [Building |-> bld, XTL |-> r.XTL, YTL |-> r.YTL, XBR |-> r.XBR, YBR |-> r.YBR,
     Regions |-> <<r>>]
SiteLayers ==
    (2 :> LayerOf(1, Rect(500, 500, 2500, 1500))) @@
    (4 :> LayerOf(1, Rect(1500, 500, 3500, 2500))) @@
    (5 :> LayerOf(2, Rect(3000, 500, 5000, 2500)))

\* orders in which the iteration over the layer map may meet the layers
LayerOrders == { <<2, 4, 5>>, <<4, 5, 2>> }

\* one anchor per layer, and one outdoors
SiteAnchors ==
    (11 :> [ID |-> 11, X |-> 1000, Y |-> 1000, Layer |-> 2]) @@
    (12 :> [ID |-> 12, X |-> 3000, Y |-> 1000, Layer |-> 4]) @@
    (13 :> [ID |-> 13, X |-> 4000, Y |-> 1000, Layer |-> 5]) @@
    (14 :> [ID |-> 14, X |-> 0, Y |-> 0, Layer |-> OutdoorLayer])

\* positions (cm): in layers 2 and 4, in layer 2 only, in building 1 but in
\* no layer, in both buildings, in layer 5 only, outside, not a number
SitePositions ==
    { <<2000, 1000>>, <<800, 800>>, <<1000, 2000>>, <<3200, 1000>>,
      <<4000, 2000>>, <<6000, 1000>>, <<NaN, NaN>> }

\* measurement batches <<BLE, TWR>>
SiteBatches ==
    { << <<>>, <<>> >>,
      << <<>>, <<Twr(99, 500)>> >>,
      << <<>>, <<Twr(11, 1200), Twr(12, 1000)>> >>,
      << <<>>, <<Twr(11, 1000), Twr(12, 2500)>> >>,
      << <<>>, <<Twr(11, 2500), Twr(12, 1200)>> >>,
      << <<>>, <<Twr(11, 1000)>> >>,
      << <<>>, <<Twr(12, 1000), Twr(13, 1000)>> >>,
      << <<>>, <<Twr(14, 500)>> >>,
      << <<>>, <<Twr(14, 500), Twr(13, 1000)>> >>,
      << <<Ble(11, -20)>>, <<Twr(12, 1000)>> >> }

\* a layer manager, a batch and a position to be resolved
InitLayer ==
    /\ anchors = SiteAnchors
    /\ lastTS = <<>>
    /\ lastImuDist = <<>>
    /\ initialized = FALSE
    /\ divergeCount = 0
    /\ ekf = NewEKF
    /\ looseFusor = NewFusor(0)
    /\ crashed = FALSE
    /\ result = <<>>
    /\ lastCall \in {[op |-> "Query", order |-> o, meas |-> b, pos |-> q] :
                        o \in LayerOrders, b \in SiteBatches, q \in SitePositions}
    /\ nCalls = 0
    /\ nIdle = 0
    /\ server = <<>>
    /\ sender = <<>>

\* one call of GetLayer
Resolve ==
    /\ lastCall.op = "Query"
    /\ lastCall' = [op |-> "GetLayer", order |-> lastCall.order,
                    meas |-> lastCall.meas, pos |-> lastCall.pos,
                    out |-> GetLayerOf(LayerManagerOf(SiteLayers, lastCall.order),
                                       lastCall.meas[1], lastCall.meas[2],
                                       lastCall.pos, anchors)]
    /\ UNCHANGED <<anchors, lastTS, lastImuDist, initialized, divergeCount, ekf,
                   looseFusor, crashed, result, nCalls, nIdle, server, sender>>

NextLayer == Resolve

SpecLayer == InitLayer /\ [][NextLayer]_vars

(***************************************************************************)
(* UDP server (src/server/udp.go): one pipeline behind all tags.  A run    *)
(* feeds a stream of frames of two tags to the server; the server is then  *)
(* built anew and fed the frames of the first tag alone.                   *)
(***************************************************************************)
TagA == 161
TagB == 178

TwrFrame(tag, ts, aid, rng) ==
    [tag |-> tag, ts |-> ts, ble |-> <<>>, twr |-> <<Twr(aid, rng)>>]
RssiFrame(tag, ts, aid, dbm) ==
    [tag |-> tag, ts |-> ts, ble |-> <<Ble(aid, dbm)>>, twr |-> <<>>]

\* the packet streams: a first and a second frame of tag A, the second
\* 0.2 s or 39 s later, with frames of tag B that arrive before the first
\* or between the two
Streams ==
    LET FirstFrames ==
            { TwrFrame(TagA, 1000, 1, 500), RssiFrame(TagA, 1000, 1, -20) }
        SecondFrames ==
            { TwrFrame(TagA, 1200, 1, 500), TwrFrame(TagA, 1200, 1, 7000),
              TwrFrame(TagA, 40000, 1, 500), RssiFrame(TagA, 40000, 1, -20) }
        EarlyFrames == { <<>>, <<TwrFrame(TagB, 900, 2, 500)>> }
        MiddleFrames ==
            { <<>>, <<TwrFrame(TagB, 1100, 2, 500)>>,
              <<RssiFrame(TagB, 1100, 2, -20)>>, <<TwrFrame(TagB, 20000, 2, 500)>> }
    IN  { e \o <<f1>> \o m \o <<f2>> :
             e \in EarlyFrames, f1 \in FirstFrames,
             m \in MiddleFrames, f2 \in SecondFrames }

\* the frames of one tag in a stream
FramesOf(stream, tag) == SelectSeq(stream, LAMBDA f : f.tag = tag)

\* NewUdpServer on a new pipeline: nothing sent yet; sent collects what
\* sendResult reports for tag A, before keeps the reports of the run with
\* both tags
NewUdpServer(stream, out) ==
    [stream |-> stream, out |-> out, next |-> 1, sent |-> <<>>,
     alone |-> FALSE, before |-> <<>>]

InitServer ==
    /\ anchors = NewAnchors(ConfigAnchors)
    /\ lastTS = <<>>
    /\ lastImuDist = <<>>
    /\ initialized = FALSE
    /\ divergeCount = 0
    /\ ekf = NewEKF
    /\ looseFusor = NewFusor(0)
    /\ crashed = FALSE
    /\ result = <<>>
    /\ lastCall = [op |-> "none"]
    /\ nCalls = 0
    /\ nIdle = 0
    /\ server \in {NewUdpServer(st, out) : st \in Streams, out \in KfOutcomes}
    /\ sender = <<>>

\* the position report of sendResult: tag, arrival time, position, layer
\* and flag of the FusionResult
wsPos(tagID, ts, res) ==
    [ID |-> tagID, TS |-> ts, X |-> res.X, Y |-> res.Y,
     Layer |-> IF res.Layer = <<>> THEN 0 ELSE res.Layer[1], Flag |-> res.Flag]

\* handlePacket on the next frame of the stream: feedTwr or feedRssi calls
\* Process on the one pipeline and sendResult reports the result
Feed ==
    /\ server.next <= Len(server.stream)
    /\ ~crashed
    /\ \E f \in {server.stream[server.next]} :
          /\ ProcessRuns(f.ts, <<f.ble, f.twr>>, server.out)
          /\ server' = [server EXCEPT
                          !.next = @ + 1,
                          !.sent = IF f.tag = TagA /\ result' # <<>>
                                   THEN Append(@, wsPos(f.tag, f.ts, result'[1]))
                                   ELSE @]
    /\ UNCHANGED <<anchors, lastImuDist, nCalls, nIdle, sender>>

\* the program is started again on the same configuration and receives the
\* frames of tag A only
Restart ==
    /\ ~server.alone
    /\ server.next > Len(server.stream)
    /\ anchors' = NewAnchors(ConfigAnchors)
    /\ lastTS' = <<>>
    /\ lastImuDist' = <<>>
    /\ initialized' = FALSE
    /\ divergeCount' = 0
    /\ ekf' = NewEKF
    /\ looseFusor' = NewFusor(0)
    /\ crashed' = FALSE
    /\ result' = <<>>
    /\ lastCall' = [op |-> "none"]
    /\ server' = [NewUdpServer(FramesOf(server.stream, TagA), server.out) EXCEPT
                    !.alone = TRUE, !.before = server.sent]
    /\ UNCHANGED <<nCalls, nIdle, sender>>

NextServer == Feed \/ Restart

SpecServer == InitServer /\ [][NextServer]_vars

(***************************************************************************)
(* RBC sender (src/rbc/sender.go).  Three kinds of goroutine share the     *)
(* Sender: the packet-processing goroutine that calls Send, the goroutine  *)
(* that calls Stop, and one loop per TCP client.  Each action is one       *)
(* step between two points where another goroutine can run.  A flag is the *)
(* set of its bits, so (mask & flag) == flag reads flag \subseteq mask.    *)
(***************************************************************************)
MaxSends == 2
QueueCap == 1

MsgFlags == {{"position"}, {"warning"}, {"position", "warning"}}

\* the targets a program registers before Start
UdpConfigs == { <<>>, <<{"position"}>> }
TcpConfigs == { <<>>, <<{"warning"}>>, <<{"warning"}, {"position", "warning"}>> }

\* AddTCPSender followed by TcpClient.Start: an open empty queue, the
\* running flag set, the loop goroutine waiting on the queue
NewTcpClient(flag) ==
    [flag |-> flag, queue |-> <<>>, closed |-> FALSE, running |-> TRUE,
     loop |-> "range", msg |-> {}, written |-> 0, dropped |-> 0]

\* NewSender, the Add calls and Start
NewSender(udp, tcp) ==
    [udpTargets |-> udp,
     tcpClients |-> [i \in 1..Len(tcp) |-> NewTcpClient(tcp[i])],
     connClosed |-> FALSE, running |-> TRUE,
     send |-> [pc |-> "idle", flag |-> {}, i |-> 0],
     stop |-> [pc |-> "idle", i |-> 0],
     nSends |-> 0, udpWritten |-> 0, faulted |-> FALSE]

InitSender ==
    /\ anchors = NewAnchors(ConfigAnchors)
    /\ lastTS = <<>>
    /\ lastImuDist = <<>>
    /\ initialized = FALSE
    /\ divergeCount = 0
    /\ ekf = NewEKF
    /\ looseFusor = NewFusor(0)
    /\ crashed = FALSE
    /\ result = <<>>
    /\ lastCall = [op |-> "none"]
    /\ nCalls = 0
    /\ nIdle = 0
    /\ server = <<>>
    /\ sender \in {NewSender(u, t) : u \in UdpConfigs, t \in TcpConfigs}

\* a step of one of the sender's goroutines; a panic ends the program
SenderStep(s) ==
    /\ ~sender.faulted
    /\ sender' = s
    /\ UNCHANGED <<anchors, lastTS, lastImuDist, initialized, divergeCount, ekf,
                   looseFusor, crashed, result, lastCall, nCalls, nIdle, server>>

\* what an unsynchronised read of a flag can return: the value Start wrote,
\* or the value Stop wrote once it has written it
RacyRead(flag) == IF flag THEN {TRUE} ELSE {TRUE, FALSE}

\* Send, lines 94-107: return when the sender is seen stopped, else build
\* the message
SendCall ==
    /\ sender.send.pc = "idle"
    /\ sender.nSends < MaxSends
    /\ \E flag \in MsgFlags, seen \in RacyRead(sender.running) :
          SenderStep([sender EXCEPT
              !.nSends = @ + 1,
              !.send = IF seen THEN [pc |-> "udp", flag |-> flag, i |-> 1]
                               ELSE [pc |-> "idle", flag |-> {}, i |-> 0]])

\* Send, lines 110-117: one UDP target; the error of a write on a closed
\* connection is ignored
SendUdp ==
    /\ sender.send.pc = "udp"
    /\ LET i == sender.send.i
       IN  IF i > Len(sender.udpTargets)
           THEN SenderStep([sender EXCEPT !.send.pc = "tcp", !.send.i = 1])
           ELSE SenderStep([sender EXCEPT
                   !.send.i = @ + 1,
                   !.udpWritten = IF sender.send.flag \subseteq sender.udpTargets[i]
                                     /\ ~sender.connClosed
                                  THEN @ + 1 ELSE @])

\* Send, lines 120-128: one TCP client; a send on a closed channel panics,
\* a send on a full one takes the default case
SendTcp ==
    /\ sender.send.pc = "tcp"
    /\ LET i == sender.send.i
       IN  IF i > Len(sender.tcpClients)
           THEN SenderStep([sender EXCEPT
                   !.send = [pc |-> "idle", flag |-> {}, i |-> 0]])
           ELSE LET c == sender.tcpClients[i]
                IN  IF ~(sender.send.flag \subseteq c.flag)
                    THEN SenderStep([sender EXCEPT !.send.i = @ + 1])
                    ELSE IF c.closed
                    THEN SenderStep([sender EXCEPT !.faulted = TRUE,
                                                   !.send.pc = "panic"])
                    ELSE IF Len(c.queue) < QueueCap
                    THEN SenderStep([sender EXCEPT
                            !.send.i = @ + 1,
                            !.tcpClients[i].queue = Append(@, sender.send.flag)])
                    ELSE SenderStep([sender EXCEPT !.send.i = @ + 1])

\* Sender.Stop, line 84
StopCall ==
    /\ sender.stop.pc = "idle"
    /\ SenderStep([sender EXCEPT !.running = FALSE, !.stop.pc = "conn"])

\* Sender.Stop, lines 85-87
StopConn ==
    /\ sender.stop.pc = "conn"
    /\ SenderStep([sender EXCEPT !.connClosed = TRUE,
                                 !.stop = [pc |-> "clients", i |-> 1]])

\* Sender.Stop, lines 88-90, and TcpClient.Stop, line 138
ClientStopFlag ==
    /\ sender.stop.pc = "clients"
    /\ LET i == sender.stop.i
       IN  IF i > Len(sender.tcpClients)
           THEN SenderStep([sender EXCEPT !.stop.pc = "done"])
           ELSE SenderStep([sender EXCEPT !.tcpClients[i].running = FALSE,
                                          !.stop.pc = "close"])

\* TcpClient.Stop, line 139
ClientStopClose ==
    /\ sender.stop.pc = "close"
    /\ SenderStep([sender EXCEPT !.tcpClients[sender.stop.i].closed = TRUE,
                                 !.stop.pc = "wait"])

\* TcpClient.Stop, line 140: wait for the loop goroutine
ClientStopWait ==
    /\ sender.stop.pc = "wait"
    /\ sender.tcpClients[sender.stop.i].loop = "done"
    /\ SenderStep([sender EXCEPT !.stop = [pc |-> "clients", i |-> @.i + 1]])

\* loop, line 159: take the next message, or leave when the queue is
\* closed and drained
LoopRange(i) ==
    /\ sender.tcpClients[i].loop = "range"
    /\ LET c == sender.tcpClients[i]
       IN  IF c.queue # <<>>
           THEN SenderStep([sender EXCEPT
                   !.tcpClients[i].queue = Tail(@),
                   !.tcpClients[i].msg = Head(c.queue),
                   !.tcpClients[i].loop = "got"])
           ELSE /\ c.closed
                /\ SenderStep([sender EXCEPT !.tcpClients[i].loop = "done"])

\* loop, lines 160-182: leave when the client is seen stopped, else write
\* the message or drop it when the connection cannot be made
LoopWrite(i) ==
    /\ sender.tcpClients[i].loop = "got"
    /\ \E seen \in RacyRead(sender.tcpClients[i].running), connected \in BOOLEAN :
          SenderStep([sender EXCEPT
              !.tcpClients[i].msg = {},
              !.tcpClients[i].loop = IF seen THEN "range" ELSE "done",
              !.tcpClients[i].written = IF seen /\ connected THEN @ + 1 ELSE @,
              !.tcpClients[i].dropped = IF seen /\ ~connected THEN @ + 1 ELSE @])

Loop == \E i \in 1..Len(sender.tcpClients) : LoopRange(i) \/ LoopWrite(i)

NextSender ==
    \/ SendCall \/ SendUdp \/ SendTcp
    \/ StopCall \/ StopConn \/ ClientStopFlag \/ ClientStopClose \/ ClientStopWait
    \/ Loop

SpecSender == InitSender /\ [][NextSender]_vars

(***************************************************************************)
(* Properties                                                              *)
(***************************************************************************)
IsProcess == lastCall.op = "Process"
IsIMU == lastCall.op = "ProcessIMU"
Returned == IsProcess /\ ~crashed /\ result # <<>>

\* C1: every Process call runs to completion and returns a FusionResult;
\* no call overruns the MaxMeaDim-sized measurement storage of the filter.
C1_ProcessCompletes == ~crashed

\* C2 (as stated): after each call of Process or ProcessIMU that returns,
\* lastTS is strictly greater than it was after every earlier call.
C2_LastTSStrictlyIncreases ==
    [][(lastTS # <<>> /\ ~crashed' /\ lastCall'.op \in {"Process", "ProcessIMU"})
       => lastTS'[1] > lastTS[1]]_vars

\* the calls that stamp lastTS: a Process call that returns, and a
\* ProcessIMU call that is not rejected by the sanity gate and not ended
\* by the covariance watchdog
Stamps(c, cr) ==
    \/ c.op = "Process" /\ ~cr
    \/ c.op = "ProcessIMU" /\ (c.gap \/ (c.applied /\ ~c.wd))

\* C2 (amended): lastTS never decreases; it is strictly greater after
\* every Process call that returns and after every ProcessIMU call that
\* is neither rejected by the sanity gate nor ended by the covariance
\* watchdog; a rejected or watchdog-ended ProcessIMU call leaves lastTS
\* unchanged.
C2_LastTSMonotone ==
    [][lastTS # <<>> =>
          /\ lastTS'[1] >= lastTS[1]
          /\ Stamps(lastCall', crashed') => lastTS'[1] > lastTS[1]
          /\ (lastCall'.op = "ProcessIMU" /\ ~Stamps(lastCall', crashed'))
                => lastTS' = lastTS]_vars

\* a late Process call and a late, applied ProcessIMU call have both been
\* bumped past the previous lastTS, and a rejected sample has been seen
C2_Witness ==
    /\ IsIMU /\ lastCall.rejected
    /\ lastTS # <<>> /\ lastTS[1] > 1000

\* C3: after every call vx and vy lie in [-1.5, 1.5] m/s, the path-loss
\* exponent n in [2.5, 3.5] and the reference attenuation A in [7, 9].
C3_StateClamped ==
    /\ FGe(ekf.xk[2], -MaxVel) /\ FLe(ekf.xk[2], MaxVel)
    /\ FGe(ekf.xk[3], -MaxVel) /\ FLe(ekf.xk[3], MaxVel)
    /\ FGe(ekf.xk[4], PathLossExp[1]) /\ FLe(ekf.xk[4], PathLossExp[3])
    /\ FGe(ekf.xk[5], DeltaA[1]) /\ FLe(ekf.xk[5], DeltaA[3])

\* a hard-reset trigger fired inside the last Process call
ResetTrigger ==
    /\ IsProcess /\ ~crashed
    /\ (lastCall.gap \/ lastCall.ret = -2 \/ lastCall.wd # "none")

\* C4: whenever a hard-reset trigger fires inside Process (gap over 30 s,
\* covariance watchdog, non-finite state found by the EKF update, NaN
\* output) the returned result has flag -2 and x = y = 0.
C4_ResetResult ==
    ResetTrigger =>
        /\ result # <<>>
        /\ result[1].Flag = -2 /\ result[1].X = 0 /\ result[1].Y = 0

\* C5: after a Process call that returned flag -2 the pipeline is
\* uninitialized.
C5_Flag2Uninitialized ==
    (Returned /\ result[1].Flag = -2) => ~initialized

\* the call just made hard-reset the pipeline or its filter
HardReset(c) ==
    \/ c.op = "Process" /\ (c.gap \/ c.ret = -2 \/ c.wd # "none")
    \/ c.op = "ProcessIMU" /\ (c.gap \/ c.wd)

\* C6: after every hard reset (gap over 30 s in Process or ProcessIMU,
\* covariance watchdog, non-finite state, NaN output) looseFusor is a newly
\* constructed instance: another instance than before the call, or at
\* least one that has not ingested anything.
C6_ResetRenewsFusor ==
    [][(~crashed' /\ HardReset(lastCall'))
       => (looseFusor'.id # looseFusor.id \/ looseFusor' = NewFusor(looseFusor.id))]_vars

\* C7: a Process call with dt > 30 s returns flag -2, x = 0, y = 0 and
\* algo "NA" and leaves the pipeline uninitialized; the next Process call,
\* with dt <= 30 s and at least one accepted BLE or TWR row, leaves the
\* pipeline initialized.
C7_GapThenRecover ==
    /\ []((IsProcess /\ lastCall.gap) =>
            /\ result # <<>>
            /\ result[1].Flag = -2 /\ result[1].X = 0 /\ result[1].Y = 0
            /\ result[1].Algo = "NA"
            /\ ~initialized)
    /\ [][(/\ IsProcess /\ lastCall.gap
           /\ lastCall'.op = "Process" /\ ~lastCall'.gap /\ lastCall'.rows > 0)
          => initialized']_vars

\* a pipeline that was initialized, lost it to a gap, and recovered with
\* the next Process call
C7_Witness ==
    /\ IsProcess /\ lastCall.prevGap /\ ~lastCall.gap /\ lastCall.rows > 0
    /\ lastCall.boot /\ initialized /\ ~crashed

\* C8: two consecutive Process calls with dt > 30 s leave the same state
\* vector, covariance, initialized flag and divergeCount as the first one.
C8_ResetIdempotent ==
    [][(/\ IsProcess /\ lastCall.gap
        /\ lastCall'.op = "Process" /\ lastCall'.gap)
       => /\ ekf'.xk = ekf.xk /\ ekf'.Pxk = ekf.Pxk
          /\ initialized' = initialized /\ divergeCount' = divergeCount]_vars

\* the second of two gap calls carried rows and went through the bootstrap
C8_Witness ==
    /\ IsProcess /\ lastCall.gap /\ lastCall.prevGap /\ lastCall.boot
    /\ ekf.xk = ResetXk /\ ekf.Pxk = ResetPxk /\ ~initialized

\* C9: an accepted IMU sample moves the EKF position from its predicted
\* value by (dd cos yaw, dd sin yaw), so that displacements accumulate.
C9_ImuDisplaces ==
    (IsIMU /\ lastCall.applied /\ ~lastCall.wd) =>
        /\ ekf.xk[0] = FAdd(lastCall.px, lastCall.dx)
        /\ ekf.xk[1] = FAdd(lastCall.py, lastCall.dy)

\* C10: ProcessIMU never sets initialized; initialized becomes true only in
\* a Process call whose sample holds at least one accepted BLE or TWR row.
C10_InitializedOnlyByProcess ==
    [][(~initialized /\ initialized')
       => (lastCall'.op = "Process" /\ lastCall'.rows > 0)]_vars

\* an IMU sample applied to an uninitialized pipeline
C10_Witness ==
    IsIMU /\ lastCall.applied /\ ~lastCall.wd /\ ~initialized

\* the estimated ranges of the valid BLE readings of a sample
BleEstRanges(sample) ==
    MapSeq(SelectSeq(sample.BLE, LAMBDA r : ValidRssi(r.Strength)),
           LAMBDA r : Rssi2Range(r.Strength))

\* C11: every TWR row of the sample built by buildSample passes all gates:
\* known anchor, 0.01 m <= range <= 400 m, within 50 m of the distance
\* between anchor and current state when the pipeline is initialized, and
\* at most max(30 m, 2 m_min) when the batch has a valid BLE range estimate.
C11_TwrRowsGated ==
    IsProcess =>
      \A i \in 1 .. Len(lastCall.sample.TWR) :
        LET row == lastCall.sample.TWR[i]
            est == BleEstRanges(lastCall.sample)
            dist == Hypot(FSub(row.X, lastCall.pos0[1]), FSub(row.Y, lastCall.pos0[2]))
        IN /\ row.AnchorID \in DOMAIN anchors
           /\ FGe(row.Range, 1) /\ FLe(row.Range, 40000)
           /\ lastCall.init0 => FLe(FAbs(FSub(row.Range, dist)), 5000)
           /\ Len(est) > 0 => FLe(row.Range, Max(3000, 2 * MinOf(est)))

\* the last Process call reached its output stage and returned a result
\* that is not a hard reset
OutputStage == Returned /\ ~lastCall.gap /\ lastCall.wd = "none"

C13_ShortIdAliases ==
    \A id \in DOMAIN anchors :
        /\ Short(id) \in DOMAIN anchors
        /\ anchors[Short(id)].X = anchors[id].X
        /\ anchors[Short(id)].Y = anchors[id].Y
        /\ anchors[Short(id)].Layer = anchors[id].Layer

\* C14: whatever the number of BLE readings, per-beacon constraint lists
\* and layer-wide templates, the sample of a Process call carries at most
\* dimCap = 5 dimension constraints and the EKF enables at most 5 virtual
\* measurement rows.
C14_DimCap ==
    /\ ekf.usedMea[3] <= dimCap
    /\ Len(ekf.Dc.dimConsUse) <= dimCap
    /\ IsProcess => Len(lastCall.sample.DimPos) <= dimCap

\* a call that returned with three readings of a beacon that carries two
\* segments each, in a layer with a template (seven candidates): five
\* constraints in the sample, all five enabled
C14_Witness ==
    /\ IsProcess /\ ~crashed /\ Len(lastCall.sample.BLE) = 3
    /\ Len(lastCall.sample.DimPos) = dimCap
    /\ ekf.usedMea[3] = dimCap

\* the last call was a Process call whose EKF step was a measurement update
Updated == IsProcess /\ ~crashed /\ lastCall.ret = 2

\* C15: after each measurement update every diagonal entry of the
\* measurement noise satisfies Rmin[i,i] <= R[i,i] <= Rmax[i,i], for every
\* row of the measurement vector, the virtual constraint rows included.
C15_NoiseWithinBounds ==
    Updated =>
      \A i \in DOMAIN ekf.R :
          FLe(ekf.R[i].Rmin, ekf.R[i].Rk) /\ FLe(ekf.R[i].Rk, ekf.R[i].Rmax)

\* Gershgorin lower bound of the eigenvalues: min_i (P[i,i] - sum_{j # i} |P[i,j]|)
Gershgorin(P) ==
    LET disc(i) == P[i][i] - SumAbs(P, i)
    IN disc(CHOOSE i \in DOMAIN P : \A j \in DOMAIN P : disc(i) <= disc(j))

\* C16: after every call the covariance P is symmetric and its Gershgorin
\* lower bound min_eigen(P) is >= 0, predict-only and IMU steps included.
C16_CovarianceSound ==
    /\ \A i, j \in Kin : ekf.Pxk[i][j] = ekf.Pxk[j][i]
    /\ Gershgorin(ekf.Pxk) >= 0

\* C18: a Process call whose sample holds no accepted BLE row and no
\* accepted TWR row makes a predict-only EKF step with outcome 1; the
\* outcome 2 (measurement update) needs at least one real BLE or TWR
\* measurement and never comes from dimension-constraint rows alone.
C18_PredictOnlyWithoutRows ==
    (IsProcess /\ ~crashed /\ ~lastCall.gap /\ lastCall.rows = 0)
       => lastCall.ret = 1

\* C19: whenever Process returns a flag >= 1 the pipeline is initialized at
\* return; an uninitialized pipeline never reports a flag >= 1 position.
C19_ValidFlagInitialized ==
    (Returned /\ result[1].Flag >= 1) => initialized

\* C20: once RkConst has declared the constraints over limit, DimConsDeter
\* enables no constraint on a later sample, and the constraints stay
\* suppressed for as long as the innovation statistics are abnormal (at
\* least two of |mean| > 0.3, std > 0.4, NIS ratio > 1).
C20_SuppressedUntilRecovered ==
    [][(ekf.Dc.dimRkOverLim /\ lastCall'.op = "Process" /\ ~crashed')
       => /\ ~lastCall'.gap => ekf'.usedMea[3] = 0
          /\ ekf'.Dc.abnormal => ekf'.Dc.dimRkOverLim]_vars

IsRoundTrip == lastCall.op = "RoundTrip"

\* C17 (as stated): for every distance d in cm with 100 <= d <= 700 +
\* intrDist, |Rssi2Range(range2rssi(d)) - d| / d <= 0.02.
C17_RoundTripTwoPercent ==
    IsRoundTrip => 100 * Abs(lastCall.back - lastCall.d) <= 2 * lastCall.d

\* C17 (amended): for every such d the recovered range is not below d and
\* exceeds it by at most d / 12 (8.34 %).
C17_RoundTripOneDecibel ==
    IsRoundTrip =>
        /\ lastCall.back >= lastCall.d
        /\ 12 * (lastCall.back - lastCall.d) <= lastCall.d

\* the distance with the largest relative error: 108 cm comes back as 117 cm
C17_Witness ==
    /\ IsRoundTrip /\ lastCall.back > lastCall.d
    /\ 12 * (lastCall.back - lastCall.d) = lastCall.d

\* the constraint-activity history and the innovation-statistics history
FlagHistory == History(ekf.Dc.dimConsedFlags, ekf.Dc.flagRows)
RkHistory == History(ekf.Dc.rkExamed, ekf.Dc.rkRows)

\* the call that has just returned ran DimConsDeter: a Process call that got
\* past the gap check
DeterRan == IsProcess /\ ~lastCall.gap

\* the call that has just returned wrote the statistics of a measurement
\* update with a real row into the history
RkWrote ==
    /\ IsProcess /\ ~crashed /\ ~lastCall.gap
    /\ lastCall.ret \in {2, -2}
    /\ ekf.usedMea[0] + ekf.usedMea[1] > 0

\* C21: both histories are rolling windows: a call that records a new
\* entry moves every earlier entry one place back unchanged, so entry i
\* holds what was recorded i calls (updates) ago
C21_RollingWindows ==
    [][/\ DeterRan' => \A i \in 1 .. (HistoryLen - 1) : FlagHistory'[i + 1] = FlagHistory[i]
       /\ RkWrote' => \A i \in 1 .. (HistoryLen - 1) : RkHistory'[i + 1] = RkHistory[i]]_vars

\* a call of GetLayer has returned
Resolved == lastCall.op = "GetLayer"

\* the layers measured through a known anchor, the projects among theirs
\* whose rectangle contains the position, and the layers of a project that
\* contain the position
MeasuredLayers ==
    {anchors[a].Layer : a \in KnownIds(lastCall.meas[1], anchors)
                               \cup KnownIds(lastCall.meas[2], anchors)}
SiteManager == LayerManagerOf(SiteLayers, lastCall.order)
MatchingProjects ==
    {p \in 1 .. Len(SiteManager.projects) :
        /\ \E l \in MeasuredLayers \cap DOMAIN SiteLayers :
              l # OutdoorLayer /\ SiteManager.layers[l].ProjectIdx = p
        /\ InRect(lastCall.pos, SiteManager.projects[p])}
LayersAt(p) ==
    {l \in DOMAIN SiteLayers :
        /\ SiteManager.layers[l].ProjectIdx = p
        /\ isInLayer(lastCall.pos, SiteManager.layers[l])}
RateOf(l) ==
    layerTrustRate(lastCall.meas[1], lastCall.meas[2], lastCall.pos, l, anchors)

\* C22: when two or more layers of the sole matching project contain the
\* position, the answer is the layer with the smallest trust rate, whatever
\* the order of examination, and never a layer without a rate when another
\* has one
C22_SmallestTrustRate ==
    Resolved =>
       \A p \in MatchingProjects :
          (Cardinality(MatchingProjects) = 1 /\ Cardinality(LayersAt(p)) >= 2
           /\ \E l \in LayersAt(p) : RateOf(l) # NoRate)
          => /\ lastCall.out # <<>>
             /\ lastCall.out[1] \in LayersAt(p)
             /\ \A l \in LayersAt(p) : RateOf(lastCall.out[1]) <= RateOf(l)

\* C23: without a matching project the answer is the outdoor layer when an
\* outdoor anchor was measured and none otherwise; with several matching
\* projects it is none; with one, it is the outdoor layer when no layer of
\* the project contains the position and that layer when exactly one does
C23_DecisionProcedure ==
    Resolved =>
       /\ MatchingProjects = {} =>
             lastCall.out = (IF OutdoorLayer \in MeasuredLayers
                             THEN <<OutdoorLayer>> ELSE <<>>)
       /\ Cardinality(MatchingProjects) > 1 => lastCall.out = <<>>
       /\ \A p \in MatchingProjects :
             Cardinality(MatchingProjects) = 1 =>
                /\ LayersAt(p) = {} => lastCall.out = <<OutdoorLayer>>
                /\ \A l \in LayersAt(p) : LayersAt(p) = {l} => lastCall.out = <<l>>

\* two projects match and the answer is none
C23_Witness ==
    /\ Resolved /\ Cardinality(MatchingProjects) = 2 /\ lastCall.out = <<>>
    /\ OutdoorLayer \notin MeasuredLayers

\* the centroid of the anchors of a sequence of rows plus (1, 1) m
Centroid(rows) ==
    <<SumOf(rows, "X") \div Len(rows) + 100, SumOf(rows, "Y") \div Len(rows) + 100>>

\* the call that has just returned bootstrapped the filter
Booted == IsProcess /\ lastCall.boot

\* the call went through to the output stage: no gap, no watchdog, no fault
WentThrough == ~crashed /\ ~lastCall.gap /\ lastCall.wd = "none"

NonReset == Returned /\ result[1].Algo # "NA"

\* a segment constraint of the sample that DimConsDeter enabled
SegmentEnabled ==
    \E i \in 1 .. Len(lastCall.sample.DimPos) :
       Len(lastCall.sample.DimPos[i]) = 2 /\ ekf.Dc.dimConsUse[i]

\* C25: the algo label of a non-reset result is "1D" exactly when a segment
\* constraint was enabled for the sample, and "0D" otherwise
C25_AlgoLabel ==
    NonReset => result[1].Algo = (IF SegmentEnabled THEN "1D" ELSE "0D")

\* C26: the first IMU sample of a pipeline, before or after calls of
\* Process, only stores the distance baseline (and the timestamp when there
\* is none): it leaves the state vector and the covariance as they were and
\* hands nothing to the loose fusor
C26_FirstImuOnlyBaseline ==
    [][(lastCall'.op = "ProcessIMU" /\ lastImuDist = <<>>)
         => /\ lastImuDist' # <<>>
            /\ ekf'.xk = ekf.xk /\ ekf'.Pxk = ekf.Pxk
            /\ ~lastCall'.applied]_vars

\* C27: when Process or ProcessIMU returns, the variances of x and y are
\* at most 10000 m^2
C27_CovarianceBounded ==
    ((IsProcess \/ IsIMU) /\ ~crashed) =>
       /\ FLe(ekf.Pxk[0][0], CovLimit)
       /\ FLe(ekf.Pxk[1][1], CovLimit)

\* the covariance watchdog of ProcessIMU has fired
C27_Witness ==
    IsIMU /\ lastCall.wd /\ ~initialized /\ ekf.Pxk = ResetPxk

\* C28: the EKF never reports -3, so divergeCount stays 0, the divergence
\* watchdog never fires, and every result carries a flag among -2, -1, 1, 2
C28_NoDivergenceOutcome ==
    /\ ekf.ret # -3
    /\ divergeCount = 0
    /\ (IsProcess => lastCall.wd # "diverge")
    /\ (result # <<>> => result[1].Flag \in {-2, -1, 1, 2})

\* a measurement update ended with the negative outcome -2 and the call
\* went on to the output stage
C28_Witness ==
    /\ Returned /\ lastCall.ret = -2 /\ lastCall.wd = "none" /\ ~lastCall.gap
    /\ divergeCount = 0 /\ result[1].Flag \in {-2, -1}

\* both runs of the server are over
BothRunsDone == server # <<>> /\ server.alone /\ server.next > Len(server.stream)

\* C29: the reports for a tag (position, flag, timestamp) are the same
\* whether or not frames of another tag are interleaved with its own
C29_PerTagIsolation ==
    BothRunsDone => server.sent = server.before

\* C30: whatever the interleaving of Send with Stop, Send never sends on a
\* TCP client queue that Stop has closed, and never faults
C30_SendNeverFaults ==
    sender # <<>> => ~sender.faulted

====
